---- MODULE Spec2Model ----
(***************************************************************************)
(* clap-config: the adapter `Clap` (src/src/lib.rs) that turns the parse   *)
(* results of a clap 2.x grammar into a config::Source value tree.         *)
(*                                                                         *)
(* State: the grammar handed to the constructor, the adapter               *)
(* {args, matches, subcommand_field}, its boxed clone, and what the        *)
(* last collect call of each thread returned.                              *)
(*                                                                         *)
(* Option<T> is modelled as a sequence: None == <<>>, Some(x) == <<x>>.    *)
(* HashMap<String, V> is a function whose DOMAIN is the key set.           *)
(***************************************************************************)
EXTENDS Integers, Sequences, FiniteSets, TLC

VARIABLES app, clap, boxed, ret

vars == <<app, clap, boxed, ret>>

\* ------------------------------------------------------------- bounds

\* Longest argument vector (after the program name) handed to from_args.
MaxArgv == 3

\* The threads that call collect.
Threads == {1, 2}

\* The values supplied on the command line.  No value is also the name of a
\* subcommand, so a string that names a subcommand can only have been injected.
Values == {"1", "2"}

\* The field names subcommand_field is called with: a fresh key ("mode", as in
\* the test), the name of a root subcommand, the name of a root flag.
FieldNames == {"mode", "subcommand", "verbosity"}

\* ------------------------------------------------------------- Option

None == <<>>

Some(x) == <<x>>

\* ------------------------------------------------------------- grammar

\* clap's Arg, reduced to what the adapter and the parser read of it:
\* b.name, the settings TakesValue and Multiple, and v.min_vals (1 when unset).
Arg(name, takes_value, multiple, min_vals) ==
    [name |-> name, takes_value |-> takes_value, multiple |-> multiple,
     min_vals |-> min_vals]

\* clap's App: p.meta.name, p.subcommands, p.opts, p.flags, p.positionals.
App(name, subcommands, opts, flags, positionals) ==
    [name |-> name, subcommands |-> subcommands, opts |-> opts,
     flags |-> flags, positionals |-> positionals]

\* All subsequences of s (the order of s kept).
RECURSIVE SubSeqs(_)
SubSeqs(s) ==
    IF s = <<>> THEN {<<>>}
    ELSE LET rest == SubSeqs(Tail(s))
         IN  rest \cup {<<Head(s)>> \o r : r \in rest}

\* The grammars from_args is called with.  The args of the test's new_app
\* (format, verbosity, subcommand {flag, ids}) plus: a nested subcommand, a
\* second root subcommand, and three root args that share the name of the root
\* subcommand, one per category (clap rejects no such grammar: its uniqueness
\* check covers args only, and only in debug builds).
nested_app == App("nested", <<>>, <<>>, <<Arg("verbosity", FALSE, TRUE, 1)>>, <<>>)

subcommand_app ==
    App("subcommand", <<nested_app>>,
        <<Arg("ids", TRUE, TRUE, 0)>>,
        <<Arg("flag", FALSE, FALSE, 1)>>,
        <<>>)

other_app == App("other", <<>>, <<>>, <<>>, <<>>)

SubcommandPool == <<subcommand_app, other_app>>

OptPool == <<Arg("format", TRUE, FALSE, 1), Arg("subcommand", TRUE, FALSE, 1)>>

FlagPool == <<Arg("verbosity", FALSE, TRUE, 1), Arg("subcommand", FALSE, TRUE, 1)>>

PositionalPool == <<Arg("subcommand", FALSE, FALSE, 1)>>

Apps ==
    {App("app", s, o, f, p) : s \in SubSeqs(SubcommandPool), o \in SubSeqs(OptPool),
                              f \in SubSeqs(FlagPool), p \in SubSeqs(PositionalPool)}

\* ------------------------------------------------------------- CliType

Multiple == [t |-> "Multiple"]

Single == [t |-> "Single"]

Count == [t |-> "Count"]

Boolean == [t |-> "Boolean"]

Subcommand(tree) == [t |-> "Subcommand", args |-> tree]

\* ------------------------------------------------------------- Schema Extractor

\* convert with the two arms that take no value exchanged.
convert_swapped(name, takes_value, multiple) ==
    <<name,
      CASE takes_value /\ multiple -> Multiple
        [] takes_value /\ ~multiple -> Single
        [] ~takes_value /\ multiple -> Boolean
        [] ~takes_value /\ ~multiple -> Count>>

\* get_args_types::convert
convert(name, takes_value, multiple) ==
    <<name,
      CASE takes_value /\ multiple -> Multiple
        [] takes_value /\ ~multiple -> Single
        [] ~takes_value /\ multiple -> Count
        [] ~takes_value /\ ~multiple -> Boolean>>

\* A collect that keeps the first pair of a key (entry().or_insert()).
collect_pairs_first(pairs) ==
    LET first(n) == CHOOSE i \in DOMAIN pairs :
                        /\ pairs[i][1] = n
                        /\ \A j \in DOMAIN pairs : pairs[j][1] = n => i <= j
    IN  [n \in {pairs[i][1] : i \in DOMAIN pairs} |-> pairs[first(n)][2]]

\* Iterator::collect into a HashMap: every key of the pairs, each with the
\* value of the last pair that carries it.
collect_pairs(pairs) ==
    LET last(n) == CHOOSE i \in DOMAIN pairs :
                       /\ pairs[i][1] = n
                       /\ \A j \in DOMAIN pairs : pairs[j][1] = n => j <= i
    IN  [n \in {pairs[i][1] : i \in DOMAIN pairs} |-> pairs[last(n)][2]]

RECURSIVE get_args_types(_)

\* The chained iterator of get_args_types: subcommands, opts, flags, positionals.
args_types_pairs(a) ==
    [i \in DOMAIN a.subcommands |->
        <<a.subcommands[i].name, Subcommand(get_args_types(a.subcommands[i]))>>]
    \o [i \in DOMAIN a.opts |->
        convert(a.opts[i].name, a.opts[i].takes_value, a.opts[i].multiple)]
    \o [i \in DOMAIN a.flags |->
        convert(a.flags[i].name, a.flags[i].takes_value, a.flags[i].multiple)]
    \o [i \in DOMAIN a.positionals |->
        convert(a.positionals[i].name, a.positionals[i].takes_value,
                a.positionals[i].multiple)]

get_args_types(a) == collect_pairs(args_types_pairs(a))

\* ------------------------------------------------------------- ArgMatches (clap)

\* clap's MatchedArg {occurs, vals} and ArgMatches {args, subcommand}.
EmptyMatches == [args |-> <<>>, subcommand |-> None]

\* ArgMatches::values_of: Some as soon as the arg is in the map, with whatever
\* values it holds (none, for an arg with min_values(0) given bare).
values_of(m, name) ==
    IF name \in DOMAIN m.args THEN Some(m.args[name].vals) ELSE None

\* ArgMatches::value_of: the first value, None if absent or without a value.
value_of(m, name) ==
    IF name \in DOMAIN m.args /\ m.args[name].vals /= <<>>
    THEN Some(m.args[name].vals[1]) ELSE None

\* ArgMatches::occurrences_of
occurrences_of(m, name) ==
    IF name \in DOMAIN m.args THEN m.args[name].occurs ELSE 0

\* ArgMatches::is_present: true for the invoked subcommand's name too.
is_present(m, name) ==
    \/ m.subcommand /= None /\ m.subcommand[1].name = name
    \/ name \in DOMAIN m.args

\* ArgMatches::subcommand_matches
subcommand_matches(m, name) ==
    IF m.subcommand /= None /\ m.subcommand[1].name = name
    THEN Some(m.subcommand[1].matches) ELSE None

\* ArgMatches::subcommand_name
subcommand_name(m) ==
    IF m.subcommand /= None THEN Some(m.subcommand[1].name) ELSE None

\* ------------------------------------------------------------- parser (clap)

\* One element of the argument vector, already resolved to the declaration it
\* spells: an occurrence of an option, a flag or a positional of that name with
\* the value it carries (if any), or a subcommand's name.
Token(cat, name, val) == [cat |-> cat, name |-> name, val |-> val]

RECURSIVE TokensOf(_)
TokensOf(a) ==
    {Token("opt", a.opts[i].name, Some(v)) : i \in DOMAIN a.opts, v \in Values}
    \cup {Token("opt", a.opts[i].name, None) :
             i \in {j \in DOMAIN a.opts : a.opts[j].min_vals = 0}}
    \cup {Token("flag", a.flags[i].name, None) : i \in DOMAIN a.flags}
    \cup {Token("pos", a.positionals[i].name, Some(v)) :
             i \in DOMAIN a.positionals, v \in Values}
    \cup {Token("sub", a.subcommands[i].name, None) : i \in DOMAIN a.subcommands}
    \cup UNION {TokensOf(a.subcommands[i]) : i \in DOMAIN a.subcommands}

RECURSIVE SeqsUpTo(_, _)
SeqsUpTo(S, n) ==
    IF n = 0 THEN {<<>>}
    ELSE LET shorter == SeqsUpTo(S, n - 1)
         IN  shorter \cup {<<x>> \o s : x \in S, s \in {q \in shorter : Len(q) = n - 1}}

\* The declarations of category cat in scope a.
Declared(a, cat) ==
    CASE cat = "opt" -> a.opts
      [] cat = "flag" -> a.flags
      [] cat = "pos" -> a.positionals

\* ArgMatcher::inc_occurrence_of and add_val_to: None is a parse error (no such
\* declaration in this scope, a second occurrence of a non-multiple arg).
add_occurrence(a, m, tok) ==
    LET ds == Declared(a, tok.cat)
        hit == {i \in DOMAIN ds : ds[i].name = tok.name}
        old == IF tok.name \in DOMAIN m.args THEN m.args[tok.name]
               ELSE [occurs |-> 0, vals |-> <<>>]
        new == [occurs |-> old.occurs + 1, vals |-> old.vals \o tok.val]
    IN  IF hit = {} THEN None
        ELSE IF old.occurs > 0 /\ \A i \in hit : ~ds[i].multiple THEN None
        ELSE Some([m EXCEPT !.args =
                 [n \in DOMAIN m.args \cup {tok.name} |->
                     IF n = tok.name THEN new ELSE m.args[n]]])

\* Parser::get_matches_with: the args of this scope up to a subcommand's name,
\* the rest of the vector parsed in that subcommand's scope.
RECURSIVE parse(_, _, _)
parse(a, argv, m) ==
    IF argv = <<>> THEN Some(m)
    ELSE LET tok == Head(argv)
         IN  IF tok.cat = "sub"
             THEN LET hit == {i \in DOMAIN a.subcommands :
                                  a.subcommands[i].name = tok.name}
                  IN  IF hit = {} THEN None
                      ELSE LET sub == a.subcommands[CHOOSE i \in hit : TRUE]
                               r == parse(sub, Tail(argv), EmptyMatches)
                           IN  IF r = None THEN None
                               ELSE Some([m EXCEPT !.subcommand =
                                       Some([name |-> tok.name, matches |-> r[1]])])
             ELSE LET m2 == add_occurrence(a, m, tok)
                  IN  IF m2 = None THEN None ELSE parse(a, Tail(argv), m2[1])

\* App::get_matches_from: None stands for clap's error exit.
get_matches_from(a, argv) == parse(a, argv, EmptyMatches)

\* ------------------------------------------------------------- config::Value

\* Value::new(None, x) for x a &str, a Vec<&str>, an i64, a bool, a HashMap.
\* Each kind keeps its payload in a field of its own.
ValueString(s) == [kind |-> "String", str |-> s]

ValueArray(vals) ==
    [kind |-> "Array", items |-> [i \in DOMAIN vals |-> ValueString(vals[i])]]

ValueInteger(n) == [kind |-> "Integer", int |-> n]

ValueBoolean(b) == [kind |-> "Boolean", bool |-> b]

ValueTable(t) == [kind |-> "Table", table |-> t]

\* An insert that keeps the value a key already has (entry().or_insert()).
insert_if_absent(map, key, value) ==
    [k \in DOMAIN map \cup {key} |-> IF k \in DOMAIN map THEN map[k] ELSE value]

\* HashMap::insert
insert(map, key, value) ==
    [k \in DOMAIN map \cup {key} |-> IF k = key THEN value ELSE map[k]]

\* ------------------------------------------------------------- Value Extractor

RECURSIVE extract_matches(_, _)

\* The closure with a Subcommand arm that extracts from empty parse results
\* when the subcommand was not invoked (unwrap_or_default in place of map).
extract_entry_eager(matches, name, tpe) ==
    CASE tpe.t = "Multiple" ->
           LET values == values_of(matches, name)
           IN  IF values = None THEN None ELSE Some(ValueArray(values[1]))
      [] tpe.t = "Single" ->
           LET value == value_of(matches, name)
           IN  IF value = None THEN None ELSE Some(ValueString(value[1]))
      [] tpe.t = "Count" -> Some(ValueInteger(occurrences_of(matches, name)))
      [] tpe.t = "Boolean" -> Some(ValueBoolean(is_present(matches, name)))
      [] tpe.t = "Subcommand" ->
           LET submatches == subcommand_matches(matches, name)
           IN  IF submatches = None
               THEN Some(ValueTable(extract_matches(EmptyMatches, tpe.args)))
               ELSE Some(ValueTable(extract_matches(submatches[1], tpe.args)))

\* The closure with a Count arm that drops a count of zero.
extract_entry_sparse(matches, name, tpe) ==
    CASE tpe.t = "Multiple" ->
           LET values == values_of(matches, name)
           IN  IF values = None THEN None ELSE Some(ValueArray(values[1]))
      [] tpe.t = "Single" ->
           LET value == value_of(matches, name)
           IN  IF value = None THEN None ELSE Some(ValueString(value[1]))
      [] tpe.t = "Count" ->
           IF occurrences_of(matches, name) = 0 THEN None
           ELSE Some(ValueInteger(occurrences_of(matches, name)))
      [] tpe.t = "Boolean" -> Some(ValueBoolean(is_present(matches, name)))
      [] tpe.t = "Subcommand" ->
           LET submatches == subcommand_matches(matches, name)
           IN  IF submatches = None THEN None
               ELSE Some(ValueTable(extract_matches(submatches[1], tpe.args)))

\* The closure of filter_map in extract_matches: None drops the entry.
extract_entry(matches, name, tpe) ==
    CASE tpe.t = "Multiple" ->
           LET values == values_of(matches, name)
           IN  IF values = None THEN None ELSE Some(ValueArray(values[1]))
      [] tpe.t = "Single" ->
           LET value == value_of(matches, name)
           IN  IF value = None THEN None ELSE Some(ValueString(value[1]))
      [] tpe.t = "Count" -> Some(ValueInteger(occurrences_of(matches, name)))
      [] tpe.t = "Boolean" -> Some(ValueBoolean(is_present(matches, name)))
      [] tpe.t = "Subcommand" ->
           LET submatches == subcommand_matches(matches, name)
           IN  IF submatches = None THEN None
               ELSE Some(ValueTable(extract_matches(submatches[1], tpe.args)))

\* An extraction that records the invoked subcommand in every scope it visits,
\* under the key "mode".
extract_matches_marking(matches, args) ==
    LET kept == {name \in DOMAIN args : extract_entry(matches, name, args[name]) /= None}
        tree == [name \in kept |-> extract_entry(matches, name, args[name])[1]]
        subcommand == subcommand_name(matches)
    IN  IF subcommand /= None
        THEN insert(tree, "mode", ValueString(subcommand[1]))
        ELSE tree

extract_matches(matches, args) ==
    LET kept == {name \in DOMAIN args : extract_entry(matches, name, args[name]) /= None}
    IN  [name \in kept |-> extract_entry(matches, name, args[name])[1]]

\* A collect whose marker takes the place of the invoked subcommand's entry.
collect_replacing(self) ==
    LET matches == extract_matches(self.matches, self.args)
        subcommand == subcommand_name(self.matches)
    IN  IF self.subcommand_field /= None /\ subcommand /= None
        THEN insert([k \in DOMAIN matches \ {subcommand[1]} |-> matches[k]],
                    self.subcommand_field[1], ValueString(subcommand[1]))
        ELSE matches

\* The body of Source::collect; the Ok(..) around the map is left out.
collect(self) ==
    LET matches == extract_matches(self.matches, self.args)
        subcommand == subcommand_name(self.matches)
    IN  IF self.subcommand_field /= None /\ subcommand /= None
        THEN insert(matches, self.subcommand_field[1], ValueString(subcommand[1]))
        ELSE matches

\* ------------------------------------------------------------- Clap

from_matches(args, matches) ==
    [args |-> args, matches |-> matches, subcommand_field |-> None]

\* A clone rebuilt with from_matches, which forgets the field name.
clone_rebuilt(self) == from_matches(self.args, self.matches)

\* #[derive(Clone)] on Clap
clone(self) ==
    [args |-> self.args, matches |-> self.matches,
     subcommand_field |-> self.subcommand_field]

\* ------------------------------------------------------------- actions

Init ==
    /\ app = None
    /\ clap = None
    /\ boxed = None
    /\ ret = [t \in Threads |-> None]

\* Clap::from_args(app, args); a parse error ends the process before any
\* adapter exists.
from_args ==
    /\ clap = None
    /\ \E a \in Apps :
         \E argv \in SeqsUpTo(TokensOf(a), MaxArgv) :
           LET matches == get_matches_from(a, argv)
           IN  /\ matches /= None
               /\ app' = Some(a)
               /\ clap' = Some(from_matches(get_args_types(a), matches[1]))
    /\ UNCHANGED <<boxed, ret>>

\* Clap::subcommand_field(self, field): takes the adapter by value, so it runs
\* before the adapter is handed over to its readers.
subcommand_field ==
    /\ clap /= None
    /\ boxed = None
    /\ \A t \in Threads : ret[t] = None
    /\ \E field \in FieldNames :
         clap' = Some([clap[1] EXCEPT !.subcommand_field = Some(field)])
    /\ UNCHANGED <<app, boxed, ret>>

\* Source::clone_into_box(&self)
clone_into_box ==
    /\ clap /= None
    /\ boxed = None
    /\ boxed' = Some(clone(clap[1]))
    /\ UNCHANGED <<app, clap, ret>>

\* A collect that takes the field name out of the adapter (Option::take).
collect_self_taking(t) ==
    /\ clap /= None
    /\ ret' = [ret EXCEPT ![t] = Some([on |-> "self", value |-> collect(clap[1])])]
    /\ clap' = Some([clap[1] EXCEPT !.subcommand_field = None])
    /\ UNCHANGED <<app, boxed>>

\* Source::collect(&self) called by thread t on the adapter.
collect_self(t) ==
    /\ clap /= None
    /\ ret' = [ret EXCEPT ![t] = Some([on |-> "self", value |-> collect(clap[1])])]
    /\ UNCHANGED <<app, clap, boxed>>

\* Source::collect(&self) called by thread t on the boxed clone.
collect_boxed(t) ==
    /\ boxed /= None
    /\ ret' = [ret EXCEPT ![t] = Some([on |-> "boxed", value |-> collect(boxed[1])])]
    /\ UNCHANGED <<app, clap, boxed>>

Next ==
    \/ from_args
    \/ subcommand_field
    \/ clone_into_box
    \/ \E t \in Threads : collect_self(t)
    \/ \E t \in Threads : collect_boxed(t)

Spec == Init /\ [][Next]_vars

\* ------------------------------------------------------------- reading the state

\* The threads whose collect call has returned, and the tree each got.
Returned == {t \in Threads : ret[t] /= None}

Tree(t) == ret[t][1].value

\* The subcommand invoked at the root, as the parse results record it.
RootInvoked == clap[1].matches.subcommand /= None

RootSubcommand == clap[1].matches.subcommand[1].name

FieldSet == clap[1].subcommand_field /= None

Field == clap[1].subcommand_field[1]

\* The names of the options, flags and positionals declared in scope a.
ArgNamesOf(a) ==
    {a.opts[i].name : i \in DOMAIN a.opts}
    \cup {a.flags[i].name : i \in DOMAIN a.flags}
    \cup {a.positionals[i].name : i \in DOMAIN a.positionals}

SubNamesOf(a) == {a.subcommands[i].name : i \in DOMAIN a.subcommands}

\* The declaration of subcommand S in scope a.
SubApp(a, S) == a.subcommands[CHOOSE i \in DOMAIN a.subcommands : a.subcommands[i].name = S]

\* Every subcommand name of the grammar, at any depth.
RECURSIVE AllSubNames(_)
AllSubNames(a) ==
    SubNamesOf(a) \cup UNION {AllSubNames(a.subcommands[i]) : i \in DOMAIN a.subcommands}

\* The 2x2 table of section 3 of the specification, written out.
Classified(d) ==
    IF d.takes_value THEN (IF d.multiple THEN "Multiple" ELSE "Single")
    ELSE (IF d.multiple THEN "Count" ELSE "Boolean")

\* The occurrence count and the values the parse results hold for a name.
Occurs(m, n) == IF n \in DOMAIN m.args THEN m.args[n].occurs ELSE 0

Vals(m, n) == IF n \in DOMAIN m.args THEN m.args[n].vals ELSE <<>>

\* ------------------------------------------------------------- C5

\* What C5 asks of scope a and its classification tree: every option, flag and
\* positional yields the pair (its name, the table's classification of its two
\* settings), and is so classified in the tree when nothing else in the scope
\* bears its name; every subcommand yields a Subcommand pair that carries the
\* classification tree of its own scope, which satisfies the same.
RECURSIVE TableHolds(_, _)
TableHolds(a, args) ==
    LET pairs == args_types_pairs(a)
        decls == {a.opts[i] : i \in DOMAIN a.opts}
                 \cup {a.flags[i] : i \in DOMAIN a.flags}
                 \cup {a.positionals[i] : i \in DOMAIN a.positionals}
    IN  /\ Len(pairs) = Len(a.subcommands) + Len(a.opts) + Len(a.flags)
                        + Len(a.positionals)
        /\ \A d \in decls :
             /\ \E i \in DOMAIN pairs : pairs[i] = <<d.name, [t |-> Classified(d)]>>
             /\ (d.name \notin SubNamesOf(a)
                 /\ \A e \in decls : e.name = d.name => e = d)
                => d.name \in DOMAIN args /\ args[d.name] = [t |-> Classified(d)]
        /\ \A i \in DOMAIN a.subcommands :
             LET sub == a.subcommands[i]
             IN  /\ pairs[i][1] = sub.name
                 /\ pairs[i][2].t = "Subcommand"
                 /\ TableHolds(sub, pairs[i][2].args)
                 /\ sub.name \notin ArgNamesOf(a)
                    => /\ sub.name \in DOMAIN args
                       /\ args[sub.name] = pairs[i][2]

\* C5: the classification of an option, flag or positional is the total
\* function (true,true) -> Multiple, (true,false) -> Single, (false,true) ->
\* Count, (false,false) -> Boolean of (takes_value, multiple), and every
\* subcommand is classified Subcommand with the classification tree of its
\* own scope, recursively.
C5_ClassificationTable ==
    clap /= None => TableHolds(app[1], clap[1].args)

\* A constructed adapter whose classification tree holds all four
\* classifications and a subcommand, over both scopes.
C5_Witness ==
    /\ clap /= None
    /\ {"format", "verbosity", "subcommand"} \subseteq DOMAIN clap[1].args
    /\ clap[1].args["format"].t = "Single"
    /\ clap[1].args["verbosity"].t = "Count"
    /\ clap[1].args["subcommand"].t = "Subcommand"
    /\ clap[1].args["subcommand"].args["ids"].t = "Multiple"
    /\ clap[1].args["subcommand"].args["flag"].t = "Boolean"
    /\ clap[1].args["subcommand"].args["nested"].t = "Subcommand"

\* ------------------------------------------------------------- C9

\* The last declaration named n of a list.
LastNamed(ds, n) ==
    ds[CHOOSE i \in DOMAIN ds :
           ds[i].name = n /\ \A j \in DOMAIN ds : ds[j].name = n => j <= i]

Names(ds) == {ds[i].name : i \in DOMAIN ds}

\* The classification the name n ends with in scope a when the entries are
\* inserted subcommands first, then options, then flags, then positionals.
LastInserted(a, n) ==
    IF n \in Names(a.positionals) THEN Classified(LastNamed(a.positionals, n))
    ELSE IF n \in Names(a.flags) THEN Classified(LastNamed(a.flags, n))
    ELSE IF n \in Names(a.opts) THEN Classified(LastNamed(a.opts, n))
    ELSE "Subcommand"

RECURSIVE OneEntryPerName(_, _)
OneEntryPerName(a, args) ==
    /\ DOMAIN args = SubNamesOf(a) \cup ArgNamesOf(a)
    /\ \A n \in DOMAIN args :
         /\ args[n].t = LastInserted(a, n)
         /\ args[n].t = "Subcommand"
            => OneEntryPerName(LastNamed(a.subcommands, n), args[n].args)

\* C9: the classification tree of a scope has one entry per distinct name
\* declared there, its key set is the set of the declared names, and a name
\* declared more than once carries the entry inserted last, the order being
\* subcommands, options, flags, positionals; construction never fails on it.
C9_OneEntryPerName ==
    clap /= None => OneEntryPerName(app[1], clap[1].args)

\* A grammar in which a subcommand, an option, a flag and a positional of the
\* root all share one name: the positional's classification is the one kept.
C9_Witness ==
    /\ clap /= None
    /\ "subcommand" \in SubNamesOf(app[1])
    /\ "subcommand" \in Names(app[1].opts)
    /\ "subcommand" \in Names(app[1].flags)
    /\ "subcommand" \in Names(app[1].positionals)
    /\ clap[1].args["subcommand"].t = "Boolean"
    /\ Cardinality(DOMAIN clap[1].args) = 4

\* ------------------------------------------------------------- C1

\* An option, flag or positional of scope a bears the name n.
ArgNamed(a, n) == n \in ArgNamesOf(a)

\* The tree extraction yields for the invoked root subcommand.
RootSubTree ==
    ValueTable(extract_matches(clap[1].matches.subcommand[1].matches,
                               get_args_types(SubApp(app[1], RootSubcommand))))

\* C1 as claimed: for every configured field name F and every subcommand S
\* invoked at the root, the returned tree maps F to the string S and S to
\* the nested extracted tree of S.
C1_Original ==
    \A t \in Returned :
        (FieldSet /\ RootInvoked)
        => /\ Field \in DOMAIN Tree(t)
           /\ Tree(t)[Field] = ValueString(RootSubcommand)
           /\ RootSubcommand \in DOMAIN Tree(t)
           /\ Tree(t)[RootSubcommand] = RootSubTree

\* C1 as amended: F is always mapped to the string S; S is mapped to its
\* nested extracted tree as well whenever F is not S itself and no option,
\* flag or positional of the root bears the name S.
C1_FieldBesideSubtree ==
    \A t \in Returned :
        (FieldSet /\ RootInvoked)
        => /\ Field \in DOMAIN Tree(t)
           /\ Tree(t)[Field] = ValueString(RootSubcommand)
           /\ (Field /= RootSubcommand /\ ~ArgNamed(app[1], RootSubcommand))
              => /\ RootSubcommand \in DOMAIN Tree(t)
                 /\ Tree(t)[RootSubcommand] = RootSubTree

\* The test's case: "mode" configured, "subcommand" invoked with two ids, and
\* a returned tree that holds both the marker and the nested tree.
C1_Witness ==
    \E t \in Returned :
        /\ FieldSet /\ Field = "mode"
        /\ RootInvoked /\ RootSubcommand = "subcommand"
        /\ ~ArgNamed(app[1], "subcommand")
        /\ {"mode", "subcommand"} \subseteq DOMAIN Tree(t)
        /\ Tree(t)["mode"] = ValueString("subcommand")
        /\ Tree(t)["subcommand"].kind = "Table"
        /\ "ids" \in DOMAIN Tree(t)["subcommand"].table
        /\ Tree(t)["subcommand"].table["ids"] = ValueArray(<<"1", "2">>)

\* ------------------------------------------------------------- C2

\* C2 as claimed, for scope a, its parse results m and its extracted tree tr:
\* a declared subcommand that was not invoked has no key in tr; the same in
\* the scope of the invoked subcommand.
RECURSIVE NoKeyForUninvoked(_, _, _)
NoKeyForUninvoked(a, m, tr) ==
    \A i \in DOMAIN a.subcommands :
        LET S == a.subcommands[i].name
        IN  IF subcommand_name(m) = Some(S)
            THEN (S \in DOMAIN tr /\ tr[S].kind = "Table")
                 => NoKeyForUninvoked(a.subcommands[i], m.subcommand[1].matches, tr[S].table)
            ELSE S \notin DOMAIN tr

\* C2 as claimed: no key named after a declared subcommand that was not
\* invoked appears at the scope where it is declared, so that none of its own
\* arguments is emitted.
C2_Original ==
    \A t \in Returned : NoKeyForUninvoked(app[1], clap[1].matches, Tree(t))

\* C2 as amended: a declared subcommand that was not invoked has no nested
\* tree in tr, so none of its own arguments is emitted; its name is a key of tr
\* only when an option, flag or positional of the scope bears that name or,
\* at the root, when it is the configured field name and another subcommand
\* was invoked.
RECURSIVE NoTreeForUninvoked(_, _, _, _)
NoTreeForUninvoked(a, m, tr, root) ==
    \A i \in DOMAIN a.subcommands :
        LET S == a.subcommands[i].name
        IN  IF subcommand_name(m) = Some(S)
            THEN (S \in DOMAIN tr /\ tr[S].kind = "Table")
                 => NoTreeForUninvoked(a.subcommands[i], m.subcommand[1].matches,
                                       tr[S].table, FALSE)
            ELSE S \in DOMAIN tr
                 => /\ tr[S].kind /= "Table"
                    /\ \/ ArgNamed(a, S)
                       \/ root /\ FieldSet /\ Field = S /\ m.subcommand /= None

\* C2 as amended: a declared subcommand that was not invoked has no nested
\* tree anywhere in the returned tree; its name is a key only as the name of
\* an argument of the same scope or as the configured field name at the root.
C2_UninvokedOmitted ==
    \A t \in Returned : NoTreeForUninvoked(app[1], clap[1].matches, Tree(t), TRUE)

\* "subcommand", which declares the Boolean flag and a subcommand of its own,
\* is declared and skipped ("other" is invoked): the tree has no key for it.
\* And "subcommand" is invoked without "nested": its tree has no key "nested".
C2_Witness ==
    /\ \E t \in Returned :
        /\ {"subcommand", "other"} \subseteq SubNamesOf(app[1])
        /\ RootInvoked /\ RootSubcommand = "other"
        /\ "subcommand" \notin DOMAIN Tree(t)
        /\ "other" \in DOMAIN Tree(t)
    \/ \E t \in Returned :
        /\ RootInvoked /\ RootSubcommand = "subcommand"
        /\ "subcommand" \in DOMAIN Tree(t)
        /\ Tree(t)["subcommand"].kind = "Table"
        /\ clap[1].matches.subcommand[1].matches.subcommand = None
        /\ DOMAIN Tree(t)["subcommand"].table = {"flag"}

\* ------------------------------------------------------------- C3

\* The key n of the root tree carries the injected subcommand name.
Injected(m, n, root) == root /\ FieldSet /\ Field = n /\ m.subcommand /= None

\* C3 as claimed, for a classification tree args, the parse results m of its
\* scope and the extracted tree tr: every Count key is there with the
\* occurrence count, every Boolean key with whether the argument was supplied,
\* and the same holds in the tree of the invoked subcommand.
RECURSIVE CountBooleanAsSupplied(_, _, _)
CountBooleanAsSupplied(args, m, tr) ==
    \A n \in DOMAIN args :
        /\ args[n].t = "Count"
           => n \in DOMAIN tr /\ tr[n] = ValueInteger(Occurs(m, n))
        /\ args[n].t = "Boolean"
           => n \in DOMAIN tr /\ tr[n] = ValueBoolean(n \in DOMAIN m.args)
        /\ (args[n].t = "Subcommand" /\ subcommand_name(m) = Some(n))
           => /\ n \in DOMAIN tr
              /\ tr[n].kind = "Table"
              /\ CountBooleanAsSupplied(args[n].args, m.subcommand[1].matches,
                                        tr[n].table)

\* C3 as claimed: on every extraction every Count key is present with its
\* occurrence count and every Boolean key with whether its argument was
\* supplied, at the root and in the scope of every invoked subcommand.
C3_Original ==
    \A t \in Returned :
        CountBooleanAsSupplied(clap[1].args, clap[1].matches, Tree(t))

\* C3 as amended: every Count and Boolean key is present on every
\* extraction.  A Count key maps to the occurrence count; a Boolean key maps
\* to whether the argument was supplied or a subcommand bearing its name was
\* invoked in its scope.  The one exception is the root key that equals the
\* configured field name when a root subcommand was invoked: it is present
\* and carries the injected name (and where that key is the subcommand's own
\* name, the subcommand's tree is not emitted).
RECURSIVE CountBooleanPresent(_, _, _, _)
CountBooleanPresent(args, m, tr, root) ==
    \A n \in DOMAIN args :
        /\ args[n].t \in {"Count", "Boolean"} => n \in DOMAIN tr
        /\ Injected(m, n, root)
           => n \in DOMAIN tr /\ tr[n] = ValueString(m.subcommand[1].name)
        /\ (args[n].t = "Count" /\ ~Injected(m, n, root))
           => tr[n] = ValueInteger(Occurs(m, n))
        /\ (args[n].t = "Boolean" /\ ~Injected(m, n, root))
           => tr[n] = ValueBoolean(n \in DOMAIN m.args
                                   \/ subcommand_name(m) = Some(n))
        /\ (args[n].t = "Subcommand" /\ subcommand_name(m) = Some(n)
            /\ ~Injected(m, n, root))
           => /\ n \in DOMAIN tr
              /\ tr[n].kind = "Table"
              /\ CountBooleanPresent(args[n].args, m.subcommand[1].matches,
                                     tr[n].table, FALSE)

\* C3 as amended: every Count and Boolean key is present on every
\* extraction, with the occurrence count and with the presence the parse
\* results report, save the root key that equals the configured field name,
\* which carries the injected name once a root subcommand was invoked.
C3_CountBooleanPresent ==
    \A t \in Returned :
        CountBooleanPresent(clap[1].args, clap[1].matches, Tree(t), TRUE)

\* Neither the root's Count flag nor the invoked subcommand's Boolean flag
\* was supplied, and the tree holds 0 and false for them; and the nested
\* subcommand's Count flag was supplied twice and the tree holds 2.
C3_Witness ==
    \/ \E t \in Returned :
        /\ {"verbosity", "subcommand"} \subseteq DOMAIN Tree(t)
        /\ "verbosity" \notin DOMAIN clap[1].matches.args
        /\ Tree(t)["verbosity"] = ValueInteger(0)
        /\ Tree(t)["subcommand"].kind = "Table"
        /\ "flag" \in DOMAIN Tree(t)["subcommand"].table
        /\ Tree(t)["subcommand"].table["flag"] = ValueBoolean(FALSE)
    \/ \E t \in Returned :
        /\ "subcommand" \in DOMAIN Tree(t)
        /\ Tree(t)["subcommand"].kind = "Table"
        /\ "nested" \in DOMAIN Tree(t)["subcommand"].table
        /\ Tree(t)["subcommand"].table["nested"] =
               ValueTable([verbosity |-> ValueInteger(2)])

\* ------------------------------------------------------------- C4

\* C4, for a classification tree args, the parse results m of its scope and
\* the extracted tree tr: a Single or Multiple key without a value in m is
\* not a key of tr; with values, Single carries the value as one string and
\* Multiple the values in their order; the same in the invoked subcommand.
RECURSIVE ValuesOrOmitted(_, _, _)
ValuesOrOmitted(args, m, tr) ==
    \A n \in DOMAIN args :
        /\ (args[n].t \in {"Single", "Multiple"} /\ Vals(m, n) = <<>>)
           => n \notin DOMAIN tr
        /\ (args[n].t = "Single" /\ Vals(m, n) /= <<>>)
           => n \in DOMAIN tr /\ tr[n] = ValueString(Vals(m, n)[1])
        /\ (args[n].t = "Multiple" /\ Vals(m, n) /= <<>>)
           => n \in DOMAIN tr /\ tr[n] = ValueArray(Vals(m, n))
        /\ (args[n].t = "Subcommand" /\ subcommand_name(m) = Some(n)
            /\ n \in DOMAIN tr /\ tr[n].kind = "Table")
           => ValuesOrOmitted(args[n].args, m.subcommand[1].matches, tr[n].table)

\* C4: a Single or Multiple key whose argument has no value in the parse
\* results never appears in the returned tree, neither with an empty string
\* nor with an empty sequence; with values, Single is one string and
\* Multiple the sequence of the values in their order of occurrence.
C4_Original ==
    \A t \in Returned :
        ValuesOrOmitted(clap[1].args, clap[1].matches, Tree(t))

\* ------------------------------------------------------------- C6

\* The keys of tr that carry a synthetic entry: a string that names a
\* subcommand of the grammar (no supplied value does, see Values).
SyntheticKeys(tr) ==
    {k \in DOMAIN tr : tr[k].kind = "String" /\ tr[k].str \in AllSubNames(app[1])}

\* No nested tree of tr, at any depth, holds a synthetic entry.
RECURSIVE NestedFree(_)
NestedFree(tr) ==
    \A k \in DOMAIN tr :
        tr[k].kind = "Table"
        => SyntheticKeys(tr[k].table) = {} /\ NestedFree(tr[k].table)

Target(t) == IF ret[t][1].on = "self" THEN clap[1] ELSE boxed[1]

\* C8: a collect call changes neither the adapter (classification tree,
\* parse results, field name) nor its clone, however the calls of the threads
\* interleave, and what each call returned is what collect yields for the
\* adapter it was made on.
C8_CollectReadOnly ==
    /\ [][ret' /= ret => (clap' = clap /\ boxed' = boxed /\ app' = app)]_vars
    /\ [](\A t \in Returned : Tree(t) = collect(Target(t)))

\* Both threads have collected from the same adapter, whose tree holds an
\* injected marker.
C8_Witness ==
    /\ Returned = Threads
    /\ \A t \in Threads : ret[t][1].on = "self"
    /\ FieldSet /\ RootInvoked
    /\ \A t \in Threads : Field \in DOMAIN Tree(t)

\* ------------------------------------------------------------- C10

\* The kind of value v is the one the classification tpe fixes.
KindFits(tpe, v) ==
    CASE tpe.t = "Multiple" ->
           /\ v.kind = "Array"
           /\ \A i \in DOMAIN v.items :
                v.items[i].kind = "String" /\ v.items[i].str \in Values
      [] tpe.t = "Single" -> v.kind = "String" /\ v.str \in Values
      [] tpe.t = "Count" -> v.kind = "Integer" /\ v.int \in Nat
      [] tpe.t = "Boolean" -> v.kind = "Boolean" /\ v.bool \in BOOLEAN
      [] tpe.t = "Subcommand" -> v.kind = "Table"

\* Every key of tr is a key of args with a value of the kind its
\* classification fixes, nested trees included; at the root, the configured
\* field name carries the injected string instead once a subcommand was invoked.
RECURSIVE Mirrors(_, _, _)
Mirrors(args, tr, root) ==
    \A k \in DOMAIN tr :
        IF root /\ FieldSet /\ RootInvoked /\ Field = k
        THEN tr[k] = ValueString(RootSubcommand)
        ELSE /\ k \in DOMAIN args
             /\ KindFits(args[k], tr[k])
             /\ args[k].t = "Subcommand" => Mirrors(args[k].args, tr[k].table, FALSE)

\* C10: the returned tree mirrors the classification tree: each emitted key
\* is a key of the classification tree of its scope (or, at the root, the
\* configured field name), each value has the kind its key's classification
\* fixes, and a field name that equals a name declared at the root carries
\* the injected string in place of the value extracted for that name.
C10_TreeMirrorsClassification ==
    \A t \in Returned : Mirrors(clap[1].args, Tree(t), TRUE)

\* The field name is the root's Count flag, supplied once, and a subcommand
\* was invoked: the key carries the subcommand's name, not the count.
C10_Witness ==
    \E t \in Returned :
        /\ FieldSet /\ Field = "verbosity"
        /\ "verbosity" \in DOMAIN clap[1].args
        /\ clap[1].args["verbosity"].t = "Count"
        /\ Occurs(clap[1].matches, "verbosity") = 1
        /\ RootInvoked /\ RootSubcommand = "subcommand"
        /\ {"verbosity", "subcommand"} \subseteq DOMAIN Tree(t)
        /\ Tree(t)["verbosity"] = ValueString("subcommand")
        /\ Tree(t)["subcommand"].kind = "Table"

====
